---- MODULE Spec2Model ----
(***************************************************************************)
(* Model of the voice-call session pipeline of the App component:          *)
(* playSound, endCall, startCall (with its onopen / onmessage / onerror /  *)
(* onclose callbacks) and handleCallToggle.  One action is one task of the *)
(* single-threaded event loop: a user click, a timer, a promise settling   *)
(* or a channel callback, run up to its next real suspension point.        *)
(***************************************************************************)
EXTENDS Integers, Sequences, FiniteSets, TLC

\* ------------------------------------------------------------------ bounds
MaxCalls == 2        \* startCall invocations explored without traffic
MaxMsgs  == 2        \* inbound messages explored within one call
MaxTime  == 2        \* ticks of the clock explored within one call
MaxDur   == 2        \* longest decoded chunk, in ticks
MaxFacets == 3       \* facets present in one inbound message
MaxFrames == 2       \* microphone frames captured in one run

\* A run explores one of: several calls without traffic; one call with
\* transcript traffic; one call with tool calls and interruptions; one call
\* with audio traffic and a running clock; one call with one message of any
\* facets; several calls with microphone frames; several calls with audio
\* traffic and a stopped clock; one call of the half-duplex variant
\* (src/App.tsx) with microphone frames and an audio chunk.
AllKinds == {"inputTranscription", "outputTranscription", "toolCall",
             "interrupted", "turnComplete", "audio"}
Budget(calls, msgs, ticks, frames, kinds, halfDuplex) ==
    [calls |-> calls, msgs |-> msgs, ticks |-> ticks, frames |-> frames,
     kinds |-> kinds, halfDuplex |-> halfDuplex]

Budgets ==
    { Budget(MaxCalls, 0, 0, 0, {}, FALSE),
      Budget(1, MaxMsgs, 0, 0,
             {"inputTranscription", "outputTranscription", "turnComplete"}, FALSE),
      Budget(1, MaxMsgs, 0, 0, {"toolCall", "interrupted"}, FALSE),
      Budget(1, MaxMsgs, MaxTime, 0, {"audio", "interrupted"}, FALSE),
      Budget(1, 1, 0, 0, AllKinds, FALSE),
      Budget(MaxCalls, 0, 0, MaxFrames, {}, FALSE),
      Budget(MaxCalls, MaxMsgs, 0, 0, {"audio"}, FALSE),
      Budget(1, 1, 0, MaxFrames, {"audio"}, TRUE) }

Calls == 1..MaxCalls
NoCall == 0

\* ------------------------------------------------------------------- state
VARIABLES
    callState,              \* useState<CallState>
    micError,               \* useState<string | null>: "none" or the cause
    theme,                  \* useState<AppTheme>
    transcriptions,         \* useState<TranscriptionEntry[]>
    isAiThinking,           \* useState(false)
    partialInput,           \* useState('')
    partialOutput,          \* useState('')
    currentInputRef,        \* useRef('')
    currentOutputRef,       \* useRef('')
    callStartTime,          \* useState<number | null>: -1 is null
    callDuration,           \* useState<number>(0)
    sessionPromiseRef,      \* useRef<Promise | null>: call that made it, 0 is null
    inputAudioContextRef,   \* idem
    outputAudioContextRef,  \* idem
    masterGainRef,          \* idem
    streamRef,              \* idem
    scriptProcessorRef,     \* idem
    nextStartTimeRef,       \* useRef<number>(0)
    outputSourcesRef,       \* useRef<Set<AudioBufferSourceNode>>
    ambientSourceRef,       \* useRef<AudioBufferSourceNode | null>
    ambientGainRef,         \* useRef<GainNode | null>
    isEndingRef,            \* useRef(false)
    env,                    \* the browser and channel objects made by each call
    ctl,                    \* positions of the suspended tasks
    obs,                    \* what an observer of the run has seen so far
    budget                  \* what is left to explore of Budgets

vars == << callState, micError, theme, transcriptions, isAiThinking,
           partialInput, partialOutput, currentInputRef, currentOutputRef,
           callStartTime, callDuration, sessionPromiseRef,
           inputAudioContextRef, outputAudioContextRef, masterGainRef,
           streamRef, scriptProcessorRef, nextStartTimeRef, outputSourcesRef,
           ambientSourceRef, ambientGainRef, isEndingRef, env, ctl, obs, budget >>

\* The whole state as one record, so that a handler is a function on states.
Cur ==
    [ callState |-> callState, micError |-> micError, theme |-> theme,
      transcriptions |-> transcriptions, isAiThinking |-> isAiThinking,
      partialInput |-> partialInput, partialOutput |-> partialOutput,
      currentInputRef |-> currentInputRef, currentOutputRef |-> currentOutputRef,
      callStartTime |-> callStartTime, callDuration |-> callDuration,
      sessionPromiseRef |-> sessionPromiseRef,
      inputAudioContextRef |-> inputAudioContextRef,
      outputAudioContextRef |-> outputAudioContextRef,
      masterGainRef |-> masterGainRef, streamRef |-> streamRef,
      scriptProcessorRef |-> scriptProcessorRef,
      nextStartTimeRef |-> nextStartTimeRef,
      outputSourcesRef |-> outputSourcesRef,
      ambientSourceRef |-> ambientSourceRef, ambientGainRef |-> ambientGainRef,
      isEndingRef |-> isEndingRef, env |-> env, ctl |-> ctl, obs |-> obs,
      budget |-> budget ]

Becomes(r) ==
    /\ callState' = r.callState
    /\ micError' = r.micError
    /\ theme' = r.theme
    /\ transcriptions' = r.transcriptions
    /\ isAiThinking' = r.isAiThinking
    /\ partialInput' = r.partialInput
    /\ partialOutput' = r.partialOutput
    /\ currentInputRef' = r.currentInputRef
    /\ currentOutputRef' = r.currentOutputRef
    /\ callStartTime' = r.callStartTime
    /\ callDuration' = r.callDuration
    /\ sessionPromiseRef' = r.sessionPromiseRef
    /\ inputAudioContextRef' = r.inputAudioContextRef
    /\ outputAudioContextRef' = r.outputAudioContextRef
    /\ masterGainRef' = r.masterGainRef
    /\ streamRef' = r.streamRef
    /\ scriptProcessorRef' = r.scriptProcessorRef
    /\ nextStartTimeRef' = r.nextStartTimeRef
    /\ outputSourcesRef' = r.outputSourcesRef
    /\ ambientSourceRef' = r.ambientSourceRef
    /\ ambientGainRef' = r.ambientGainRef
    /\ isEndingRef' = r.isEndingRef
    /\ env' = r.env
    /\ ctl' = r.ctl
    /\ obs' = r.obs
    /\ budget' = r.budget

Min(a, b) == IF a < b THEN a ELSE b
Max(a, b) == IF a > b THEN a ELSE b

\* ------------------------------------------------------------ initial state
NoRelease == [stop |-> 0, disconnect |-> 0, inClose |-> 0, outClose |-> 0,
              chanClose |-> 0, runs |-> 0]

Init ==
    /\ callState = "idle"
    /\ micError = "none"
    /\ theme \in {"jokes", "horror"}
    /\ transcriptions = << >>
    /\ isAiThinking = FALSE
    /\ partialInput = << >>
    /\ partialOutput = << >>
    /\ currentInputRef = << >>
    /\ currentOutputRef = << >>
    /\ callStartTime = -1
    /\ callDuration = 0
    /\ sessionPromiseRef = NoCall
    /\ inputAudioContextRef = NoCall
    /\ outputAudioContextRef = NoCall
    /\ masterGainRef = NoCall
    /\ streamRef = NoCall
    /\ scriptProcessorRef = NoCall
    /\ nextStartTimeRef = 0
    /\ outputSourcesRef = {}
    /\ ambientSourceRef = "none"
    /\ ambientGainRef = -1
    /\ isEndingRef = FALSE
    /\ env = [ now     |-> 0,
               nCalls  |-> 0,
               stream  |-> [c \in Calls |-> "none"],
               inCtx   |-> [c \in Calls |-> "none"],
               outCtx  |-> [c \in Calls |-> "none"],
               outTime |-> [c \in Calls |-> 0],
               channel |-> [c \in Calls |-> "none"],
               processor |-> [c \in Calls |-> "none"],
               loops   |-> 0,
               frames  |-> 0,
               sent    |-> << >>,
               closure |-> [c \in Calls |-> [callStartTime |-> -1,
                                             isAiThinking |-> FALSE,
                                             theme |-> "jokes"]] ]
    /\ ctl = [ endCall |-> "none", awaiting |-> NoCall, decodes |-> {},
               thens |-> << >>, thrown |-> FALSE ]
    /\ obs = [ task |-> "none", events |-> << >>, message |-> << >>,
               msgs |-> 0, cut |-> 0, hits |-> 0,
               held |-> {}, release |-> NoRelease, chimes |-> 0,
               failed |-> {}, call |-> NoCall, heard |-> {} ]
    /\ budget \in Budgets

\* What a task did that the state does not keep: a sound started, an
\* acknowledgement sent, a tool call received, a source started.
Event(kind, name, id, arg) == [kind |-> kind, name |-> name, id |-> id, arg |-> arg]

\* The state at the start of a task.  obs.message is the inbound message the
\* task handles, obs.msgs the messages delivered so far, obs.cut the number
\* of the last message that carried the interruption facet, obs.failed the
\* numbers of the messages whose audio failed to decode, obs.call the call
\* whose callback the task runs, obs.heard the calls whose onmessage has
\* received an audio facet.
Task(name) == [Cur EXCEPT !.obs.task = name, !.obs.events = << >>,
                           !.obs.message = << >>, !.obs.call = NoCall,
                           !.ctl.thrown = FALSE]

\* The state at the start of a task that runs a callback of call c.
CallTask(name, c) == [Task(name) EXCEPT !.obs.call = c]

\* ---------------------------------------------------------------- playSound
\* The tones made with an oscillator; every other name takes the buffer branch.
OscillatorTones == {"connect", "disconnect", "pop", "creak", "thump"}

\* gainNode.gain.setValueAtTime(...) of the buffer sounds, in hundredths.
InitialGain(type) ==
    CASE type = "whisper"   -> 2
      [] type = "wind"      -> 15
      [] type = "heartbeat" -> 20
      [] OTHER              -> 100

\* playSound without the stop of the ambient source it replaces.
playSound_layered(st, type, loop) ==
    IF st.outputAudioContextRef = NoCall \/ st.masterGainRef = NoCall
    THEN st
    ELSE LET s2 == [st EXCEPT !.obs.events = Append(@, Event("sound", type, 0,
                                                      IF loop THEN 1 ELSE 0)),
                              !.obs.chimes = IF type = "disconnect"
                                             THEN @ + 1 ELSE @]
         IN  IF loop /\ type \notin OscillatorTones
             THEN [s2 EXCEPT !.ambientSourceRef = type,
                             !.ambientGainRef = InitialGain(type),
                             !.env.loops = @ + 1]
             ELSE s2

\* env.loops counts the sources that play with their loop flag set: one is
\* added when a source is retained with loop = true and removed when the
\* retained source is stopped.
playSound(st, type, loop) ==
    IF st.outputAudioContextRef = NoCall \/ st.masterGainRef = NoCall
    THEN st
    ELSE LET s1 == IF loop /\ st.ambientSourceRef # "none"
                   THEN [st EXCEPT !.ambientSourceRef = "none",
                                   !.ambientGainRef = -1,
                                   !.env.loops = @ - 1,
                                   !.obs.events = Append(@, Event("stop",
                                                      st.ambientSourceRef, 0, 0))]
                   ELSE st
             s2 == [s1 EXCEPT !.obs.events = Append(@, Event("sound", type, 0,
                                                      IF loop THEN 1 ELSE 0)),
                              !.obs.chimes = IF type = "disconnect"
                                             THEN @ + 1 ELSE @]
         IN  IF loop /\ type \notin OscillatorTones
             THEN [s2 EXCEPT !.ambientSourceRef = type,
                             !.ambientGainRef = InitialGain(type),
                             !.env.loops = @ + 1]
             ELSE s2

\* ------------------------------------------------------------------ endCall
Settled(st, p) == p = NoCall \/ st.env.channel[p] # "pending"
HasSession(st, p) == p # NoCall /\ st.env.channel[p] \in {"open", "closing", "closed"}

Held(st) ==
    (IF st.streamRef # NoCall THEN {"stream"} ELSE {})
    \cup (IF st.scriptProcessorRef # NoCall THEN {"processor"} ELSE {})
    \cup (IF st.inputAudioContextRef # NoCall THEN {"inCtx"} ELSE {})
    \cup (IF st.outputAudioContextRef # NoCall THEN {"outCtx"} ELSE {})

\* endCall from "const session = await sessionPromiseRef.current" on, once the
\* awaited promise p has settled.
endCallRelease(st, p) ==
    LET closed == HasSession(st, p)
        s0 == [st EXCEPT !.obs.held = @ \cup Held(st)]
        s1 == IF closed
              THEN [s0 EXCEPT !.env.channel[p] = IF @ = "open" THEN "closing" ELSE @,
                              !.obs.held = @ \cup {"session"},
                              !.obs.release.chanClose = @ + 1]
              ELSE s0
        s2 == IF s1.streamRef # NoCall
              THEN [s1 EXCEPT !.env.stream[s1.streamRef] = "stopped",
                              !.obs.release.stop = @ + 1]
              ELSE s1
        s3 == IF s2.scriptProcessorRef # NoCall
              THEN [s2 EXCEPT !.env.processor[s2.scriptProcessorRef] = "disconnected",
                              !.obs.release.disconnect = @ + 1]
              ELSE s2
        s4 == [s3 EXCEPT !.masterGainRef = NoCall]
        s5 == IF s4.inputAudioContextRef # NoCall
              THEN [s4 EXCEPT !.env.inCtx[s4.inputAudioContextRef] = "closed",
                              !.obs.release.inClose = @ + 1]
              ELSE s4
        s6 == IF s5.outputAudioContextRef # NoCall
              THEN [s5 EXCEPT !.env.outCtx[s5.outputAudioContextRef] = "closed",
                              !.obs.release.outClose = @ + 1]
              ELSE s5
    IN  [s6 EXCEPT !.outputSourcesRef = {},
                   !.sessionPromiseRef = NoCall,
                   !.obs.release.runs = @ + 1,
                   !.ctl.endCall = "timer",
                   !.ctl.awaiting = NoCall]

\* endCall from its second statement on.  obs counts, from the first endCall
\* of a teardown to the reset timer: the invocations (hits, up to 2), the
\* release operations done, the chimes played; held names the resources
\* the refs held whenever the release block ran.
endCallLocked(st, startSeen) ==
         LET s0 == IF st.isEndingRef
                   THEN [st EXCEPT !.obs.hits = Min(@ + 1, 2)]
                   ELSE [st EXCEPT !.isEndingRef = TRUE,
                                   !.obs.hits = 1,
                                   !.obs.held = {},
                                   !.obs.release = NoRelease,
                                   !.obs.chimes = 0]
             s1 == playSound(s0, "disconnect", FALSE)
             s2 == [s1 EXCEPT !.callState = "ended",
                              !.ambientSourceRef = "none",
                              !.ambientGainRef = -1,
                              !.env.loops = IF s1.ambientSourceRef # "none"
                                            THEN @ - 1 ELSE @]
             s3 == IF startSeen # -1
                   THEN [s2 EXCEPT !.callDuration = s2.env.now - startSeen]
                   ELSE s2
             p  == s3.sessionPromiseRef
         IN  IF Settled(s3, p)
             THEN endCallRelease(s3, p)
             ELSE [s3 EXCEPT !.ctl.endCall = "awaiting", !.ctl.awaiting = p]

\* endCall without the test of isEndingRef.
endCall_unguarded(st, startSeen) == endCallLocked(st, startSeen)

\* endCall as called with the callStartTime its closure saw.
endCall(st, startSeen) ==
    IF st.isEndingRef
    THEN [st EXCEPT !.obs.hits = Min(@ + 1, 2)]
    ELSE endCallLocked(st, startSeen)

\* The reset timer's callback without setTranscriptions([]).
resetTimer_keepTranscripts(st) ==
    [st EXCEPT !.callState = "idle",
               !.partialInput = << >>,
               !.partialOutput = << >>,
               !.isAiThinking = FALSE,
               !.callStartTime = -1,
               !.isEndingRef = FALSE,
               !.ctl.endCall = "none",
               !.obs.events = Append(@, Event("reset", st.callState,
                                              Len(st.transcriptions), 0))]

\* The callback of setTimeout(..., 3000) in endCall.  The event notes the
\* callState and the number of entries it found.
resetTimer(st) ==
    [st EXCEPT !.callState = "idle",
               !.transcriptions = << >>,
               !.partialInput = << >>,
               !.partialOutput = << >>,
               !.isAiThinking = FALSE,
               !.callStartTime = -1,
               !.isEndingRef = FALSE,
               !.ctl.endCall = "none",
               !.obs.events = Append(@, Event("reset", st.callState,
                                              Len(st.transcriptions), 0))]

\* ---------------------------------------------------------------- startCall
MicCauses == {"NotAllowedError", "PermissionDeniedError", "NotFoundError",
              "NotReadableError", "OtherError"}

\* errorMessage without the NotReadableError branch.
MicMessage_noInUse(cause) ==
    CASE cause \in {"NotAllowedError", "PermissionDeniedError"} ->
             "Microphone permission denied. Please allow microphone access in your browser's site settings (often a lock icon in the address bar) and try again."
      [] cause = "NotFoundError" ->
             "No microphone was found on your device. Please connect a microphone and try again."
      [] OTHER ->
             "Could not access the microphone. Please check your hardware and browser settings."

\* The errorMessage chosen in startCall's first catch.
MicMessage(cause) ==
    CASE cause \in {"NotAllowedError", "PermissionDeniedError"} ->
             "Microphone permission denied. Please allow microphone access in your browser's site settings (often a lock icon in the address bar) and try again."
      [] cause = "NotFoundError" ->
             "No microphone was found on your device. Please connect a microphone and try again."
      [] cause = "NotReadableError" ->
             "Your microphone is currently in use by another application. Please close the other application and try again."
      [] OTHER ->
             "Could not access the microphone. Please check your hardware and browser settings."

\* startCall up to "await navigator.mediaDevices.getUserMedia".
startCallBegin(st) ==
    LET c == st.env.nCalls + 1
    IN  [st EXCEPT !.micError = "none",
                   !.callState = "calling",
                   !.env.nCalls = c,
                   !.env.stream[c] = "pending",
                   !.env.closure[c] = [callStartTime |-> st.callStartTime,
                                       isAiThinking |-> st.isAiThinking,
                                       theme |-> st.theme]]

\* startCall after getUserMedia resolved, up to sessionPromise.catch(...).
startCallConnect(st, c) ==
    [st EXCEPT !.env.stream[c] = "live",
               !.streamRef = c,
               !.env.inCtx[c] = "open",
               !.inputAudioContextRef = c,
               !.env.outCtx[c] = "open",
               !.outputAudioContextRef = c,
               !.masterGainRef = c,
               !.env.channel[c] = "pending",
               !.sessionPromiseRef = c]

\* startCall after getUserMedia resolved when "new AudioContext" throws:
\* the outer catch calls endCall.
startCallThrow(st, c) ==
    endCall([st EXCEPT !.env.stream[c] = "live", !.streamRef = c],
            st.env.closure[c].callStartTime)

\* The first catch handing the failure to endCall, as the outer catch does.
startCallMicError_endCall(st, c, cause) ==
    endCall([st EXCEPT !.env.stream[c] = "failed",
                       !.micError = MicMessage(cause),
                       !.obs.events = Append(@, Event("micError", cause, c, 0))],
            st.env.closure[c].callStartTime)

\* startCall's first catch: getUserMedia rejected.  The event notes the
\* cause and the call.
startCallMicError(st, c, cause) ==
    [st EXCEPT !.env.stream[c] = "failed",
               !.micError = MicMessage(cause),
               !.callState = "idle",
               !.obs.events = Append(@, Event("micError", cause, c, 0))]

\* The onopen callback.
onopen(st, c) ==
    playSound([st EXCEPT !.env.processor[c] = "attached",
                         !.scriptProcessorRef = c,
                         !.callState = "active",
                         !.callStartTime = st.env.now],
              "connect", FALSE)

\* The reactions a settled promise c runs: the acknowledgements and the
\* frames kept for it are sent, in the order in which they were kept, when it
\* resolved, and lost when it rejected.  env.sent is what went out as
\* realtime input, in the order of sending.
flushThens(st, c) ==
    LET mine(e) == e.arg = c
        frame(e) == e.arg = c /\ e.kind = "frame"
    IN  [st EXCEPT !.ctl.thens = SelectSeq(@, LAMBDA e : ~mine(e)),
                   !.obs.events = IF st.env.channel[c] = "open"
                                  THEN @ \o SelectSeq(st.ctl.thens, mine)
                                  ELSE @,
                   !.env.sent = IF st.env.channel[c] = "open"
                                THEN @ \o SelectSeq(st.ctl.thens, frame)
                                ELSE @]

\* A task that settles promise c also runs the endCall that awaits it.
resumeEndCall(st, c) ==
    IF st.ctl.endCall = "awaiting" /\ st.ctl.awaiting = c
    THEN endCallRelease(flushThens(st, c), c)
    ELSE flushThens(st, c)

handleSessionError(st, c) == endCall(st, st.env.closure[c].callStartTime)

\* onerror connecting again after the teardown.
onerror_reconnect(st, c) ==
    LET s1 == handleSessionError(st, c)
    IN  [s1 EXCEPT !.env.channel[c] = "pending", !.sessionPromiseRef = c]

onerror(st, c) == handleSessionError(st, c)
onclose(st, c) == endCall(st, st.env.closure[c].callStartTime)

\* ----------------------------------------------------------- onaudioprocess
\* sessionPromiseRef.current?.then(s => s.sendRealtimeInput(...)) for the f-th
\* frame captured: sent at once on an open channel, kept by a pending
\* promise, lost on a closed channel or without a promise.
sendRealtimeInput_first(st, f) ==
    LET p == st.sessionPromiseRef
        frame == Event("frame", "input", f, p)
    IN  IF p = NoCall THEN st
        ELSE IF st.env.channel[p] = "open"
             THEN [st EXCEPT !.obs.events = Append(@, frame),
                             !.env.sent = << frame >> \o @]
        ELSE IF st.env.channel[p] = "pending"
             THEN [st EXCEPT !.ctl.thens = << frame >> \o @]
        ELSE st

sendRealtimeInput(st, f) ==
    LET p == st.sessionPromiseRef
        frame == Event("frame", "input", f, p)
    IN  IF p = NoCall THEN st
        ELSE IF st.env.channel[p] = "open"
             THEN [st EXCEPT !.obs.events = Append(@, frame),
                             !.env.sent = Append(@, frame)]
        ELSE IF st.env.channel[p] = "pending"
             THEN [st EXCEPT !.ctl.thens = Append(@, frame)]
        ELSE st

\* processor.onaudioprocess of src/unnamed/part_000.
onaudioprocess(st, f) == sendRealtimeInput(st, f)

\* The capture callback of src/App.tsx without its test of the live set.
onaudioprocess_fullDuplex(st, f) == sendRealtimeInput(st, f)

\* processor.onaudioprocess of src/App.tsx.
onaudioprocess_halfDuplex(st, f) ==
    IF st.outputSourcesRef # {}
    THEN [st EXCEPT !.obs.events = Append(@, Event("frame", "dropped", f, 0))]
    ELSE sendRealtimeInput(st, f)

\* ---------------------------------------------------------------- onmessage
NaV == -999                       \* a volume that is not a number
Blank == " "
Texts == { <<"h">>, <<Blank>> }   \* transcript deltas
SoundNames == {"creak", "whisper", "wind", "heartbeat"}
Volumes == {-10, 50, 90}          \* hundredths

FunctionCall(name, hasArgs, soundName, loop, volume) ==
    [name |-> name, hasArgs |-> hasArgs, soundName |-> soundName,
     loop |-> loop, volume |-> volume]

\* The function calls a message may carry; soundName "none" is an absent one.
FunctionCalls ==
    { FunctionCall("playSoundEffect", TRUE, n, l, NaV) :
          n \in SoundNames, l \in BOOLEAN }
    \cup { FunctionCall("playSoundEffect", TRUE, "none", FALSE, NaV) }
    \cup { FunctionCall("setAmbianceVolume", TRUE, "none", FALSE, v) :
          v \in Volumes \cup {NaV} }
    \cup { FunctionCall(n, FALSE, "none", FALSE, NaV) :
          n \in {"playSoundEffect", "setAmbianceVolume"} }
    \cup { FunctionCall("getWeather", a, "none", FALSE, NaV) : a \in BOOLEAN }

\* An optional facet is a sequence of length 0 or 1.  An audio facet carries
\* the duration its decode will yield, -1 for data that fails to decode.
Option(S) == { << >> } \cup { <<x>> : x \in S }

Flag(m) == (IF m.interrupted THEN 1 ELSE 0) + (IF m.turnComplete THEN 1 ELSE 0)

Facets(m) ==
    Len(m.inputTranscription) + Len(m.outputTranscription) + Len(m.toolCall)
    + Flag(m) + Len(m.audio)

\* The messages whose facets are all of the kinds K.
Messages(K) ==
    LET Opt(k, S) == IF k \in K THEN Option(S) ELSE { << >> }
        Bool(k) == IF k \in K THEN BOOLEAN ELSE {FALSE}
    IN  { m \in [ inputTranscription : Opt("inputTranscription", Texts),
                  outputTranscription : Opt("outputTranscription", Texts),
                  toolCall : Opt("toolCall", FunctionCalls),
                  interrupted : Bool("interrupted"),
                  turnComplete : Bool("turnComplete"),
                  audio : Opt("audio", (1..MaxDur) \cup {-1}) ] :
              Facets(m) \in 1..MaxFacets }

\* String.prototype.trim() of a buffer is non-empty.
Trimmed(text) == \E i \in 1..Len(text) : text[i] # Blank

\* sessionPromiseRef.current?.then(s => s.sendToolResponse(...)): sent at once
\* on an open channel, kept by a pending promise, lost on a closed channel.
sendToolResponse(st, id, name) ==
    LET p == st.sessionPromiseRef
        ack == Event("ack", name, id, p)
    IN  IF p = NoCall THEN st
        ELSE IF st.env.channel[p] = "open"
             THEN [st EXCEPT !.obs.events = Append(@, ack)]
        ELSE IF st.env.channel[p] = "pending"
             THEN [st EXCEPT !.ctl.thens = Append(@, ack)]
        ELSE st

throw(st) == [st EXCEPT !.ctl.thrown = TRUE]

\* Math.max(0, Math.min(0.8, v))
ClampVolume(v) == Max(0, Min(80, v))

\* The loop body with the acknowledgement of setAmbianceVolume inside the
\* test of the ambient gain.
functionCall_ackIfAmbient(st, fc, id) ==
    LET s0 == [st EXCEPT !.obs.events =
                   Append(@, Event("request", fc.name, id, 0))]
    IN
    IF fc.name \in {"playSoundEffect", "setAmbianceVolume"} /\ ~fc.hasArgs
    THEN throw(s0)
    ELSE IF fc.name = "playSoundEffect" /\ fc.soundName # "none"
    THEN sendToolResponse(playSound(s0, fc.soundName, fc.loop), id, fc.name)
    ELSE IF fc.name = "setAmbianceVolume" /\ fc.volume # NaV
    THEN IF s0.ambientGainRef # -1 /\ s0.outputAudioContextRef # NoCall
         THEN LET newVolume == ClampVolume(fc.volume)
                  s1 == [s0 EXCEPT !.obs.events =
                             Append(@, Event("ramp", fc.name, id, newVolume))]
              IN  IF newVolume = 0
                  THEN throw(s1)  \* exponentialRampToValueAtTime(0, ...) is a RangeError
                  ELSE sendToolResponse(
                           [s1 EXCEPT !.ambientGainRef = newVolume], id, fc.name)
         ELSE s0
    ELSE s0

\* The loop body acknowledging every request it does not act on.
functionCall_ackAll(st, fc, id) ==
    LET s0 == [st EXCEPT !.obs.events =
                   Append(@, Event("request", fc.name, id, 0))]
    IN
    IF fc.name \in {"playSoundEffect", "setAmbianceVolume"} /\ ~fc.hasArgs
    THEN throw(s0)
    ELSE IF fc.name = "playSoundEffect" /\ fc.soundName # "none"
    THEN sendToolResponse(playSound(s0, fc.soundName, fc.loop), id, fc.name)
    ELSE IF fc.name = "setAmbianceVolume" /\ fc.volume # NaV
    THEN IF s0.ambientGainRef # -1 /\ s0.outputAudioContextRef # NoCall
         THEN LET newVolume == ClampVolume(fc.volume)
                  s1 == [s0 EXCEPT !.obs.events =
                             Append(@, Event("ramp", fc.name, id, newVolume))]
              IN  IF newVolume = 0
                  THEN throw(s1)  \* exponentialRampToValueAtTime(0, ...) is a RangeError
                  ELSE sendToolResponse(
                           [s1 EXCEPT !.ambientGainRef = newVolume], id, fc.name)
         ELSE sendToolResponse(s0, id, fc.name)
    ELSE sendToolResponse(s0, id, fc.name)

\* One iteration of "for (const fc of message.toolCall.functionCalls)".
functionCall(st, fc, id) ==
    LET s0 == [st EXCEPT !.obs.events =
                   Append(@, Event("request", fc.name, id, 0))]
    IN
    IF fc.name \in {"playSoundEffect", "setAmbianceVolume"} /\ ~fc.hasArgs
    THEN throw(s0)
    ELSE IF fc.name = "playSoundEffect" /\ fc.soundName # "none"
    THEN sendToolResponse(playSound(s0, fc.soundName, fc.loop), id, fc.name)
    ELSE IF fc.name = "setAmbianceVolume" /\ fc.volume # NaV
    THEN IF s0.ambientGainRef # -1 /\ s0.outputAudioContextRef # NoCall
         THEN LET newVolume == ClampVolume(fc.volume)
                  s1 == [s0 EXCEPT !.obs.events =
                             Append(@, Event("ramp", fc.name, id, newVolume))]
              IN  IF newVolume = 0
                  THEN throw(s1)  \* exponentialRampToValueAtTime(0, ...) is a RangeError
                  ELSE sendToolResponse(
                           [s1 EXCEPT !.ambientGainRef = newVolume], id, fc.name)
         ELSE sendToolResponse(s0, id, fc.name)
    ELSE s0

onTranscription(st, c, m) ==
    LET s1 == IF m.inputTranscription # << >>
              THEN [st EXCEPT
                      !.currentInputRef = @ \o m.inputTranscription[1],
                      !.partialInput = st.currentInputRef \o m.inputTranscription[1]]
              ELSE st
    IN  IF m.outputTranscription # << >>
        THEN [s1 EXCEPT
                !.isAiThinking = IF s1.env.closure[c].isAiThinking THEN FALSE ELSE @,
                !.currentOutputRef = @ \o m.outputTranscription[1],
                !.partialOutput = s1.currentOutputRef \o m.outputTranscription[1]]
        ELSE s1

onToolCall(st, m, id) ==
    IF st.ctl.thrown \/ m.toolCall = << >> THEN st
    ELSE functionCall(st, m.toolCall[1], id)

\* The interruption facet stopping the ambient source with the others.
onInterrupted_stopsAmbient(st, m, id) ==
    IF st.ctl.thrown \/ ~m.interrupted THEN st
    ELSE [st EXCEPT !.outputSourcesRef = {},
                    !.nextStartTimeRef = 0,
                    !.ambientSourceRef = "none",
                    !.ambientGainRef = -1,
                    !.obs.cut = id,
                    !.obs.events = Append(@, Event("interrupted", "", 0, 0))]

onInterrupted(st, m, id) ==
    IF st.ctl.thrown \/ ~m.interrupted THEN st
    ELSE [st EXCEPT !.outputSourcesRef = {},
                    !.nextStartTimeRef = 0,
                    !.obs.cut = id,
                    !.obs.events = Append(@, Event("interrupted", "", 0, 0))]

\* The turn-complete facet with setTranscriptions(() => [...]) in place of
\* the update that copies prev.
onTurnComplete_replace(st, c, m) ==
    IF st.ctl.thrown \/ ~m.turnComplete THEN st
    ELSE LET fullInput == st.currentInputRef
             fullOutput == st.currentOutputRef
             s1 == IF Trimmed(fullOutput) /\ st.env.closure[c].theme = "jokes"
                   THEN playSound(st, "pop", FALSE)
                   ELSE st
             you == IF Trimmed(fullInput)
                    THEN << [speaker |-> "You", text |-> fullInput] >> ELSE << >>
             ai  == IF Trimmed(fullOutput)
                    THEN << [speaker |-> "AI", text |-> fullOutput] >> ELSE << >>
         IN  [s1 EXCEPT !.transcriptions = you \o ai,
                        !.isAiThinking = IF Trimmed(fullInput) THEN TRUE ELSE @,
                        !.currentInputRef = << >>,
                        !.currentOutputRef = << >>,
                        !.partialInput = << >>,
                        !.partialOutput = << >>]

onTurnComplete(st, c, m) ==
    IF st.ctl.thrown \/ ~m.turnComplete THEN st
    ELSE LET fullInput == st.currentInputRef
             fullOutput == st.currentOutputRef
             s1 == IF Trimmed(fullOutput) /\ st.env.closure[c].theme = "jokes"
                   THEN playSound(st, "pop", FALSE)
                   ELSE st
             you == IF Trimmed(fullInput)
                    THEN << [speaker |-> "You", text |-> fullInput] >> ELSE << >>
             ai  == IF Trimmed(fullOutput)
                    THEN << [speaker |-> "AI", text |-> fullOutput] >> ELSE << >>
         IN  [s1 EXCEPT !.transcriptions = @ \o you \o ai,
                        !.isAiThinking = IF Trimmed(fullInput) THEN TRUE ELSE @,
                        !.currentInputRef = << >>,
                        !.currentOutputRef = << >>,
                        !.partialInput = << >>,
                        !.partialOutput = << >>]

\* The audio facet up to "await decodeAudioData(...)".
onAudio(st, c, m, id) ==
    IF st.ctl.thrown \/ m.audio = << >> THEN st
    ELSE IF st.outputAudioContextRef = NoCall
         THEN throw([st EXCEPT !.obs.heard = @ \cup {c}])
    ELSE LET ctx == st.outputAudioContextRef
         IN  [st EXCEPT
                !.obs.heard = @ \cup {c},
                !.isAiThinking = IF st.env.closure[c].isAiThinking THEN FALSE ELSE @,
                !.nextStartTimeRef = Max(@, st.env.outTime[ctx]),
                !.ctl.decodes = @ \cup {[id |-> id, ctx |-> ctx, dur |-> m.audio[1]]}]

\* The onmessage callback of call c, for the id-th message delivered.
onmessage(st, c, m, id) ==
    onAudio(onTurnComplete(onInterrupted(onToolCall(onTranscription(st, c, m),
                                                     m, id), m, id), c, m), c, m, id)

\* onDecoded advancing the cursor from the clock instead of from itself.
onDecoded_fromClock(st, d) ==
    LET s0 == [st EXCEPT !.ctl.decodes = @ \ {d},
                         !.obs.failed = IF d.dur = -1 THEN @ \cup {d.id} ELSE @]
    IN  IF d.dur = -1 \/ s0.masterGainRef # d.ctx
        THEN throw(s0)
        ELSE [s0 EXCEPT
                !.obs.events = Append(@, Event("start", "chunk", d.id, s0.nextStartTimeRef)),
                !.nextStartTimeRef = s0.env.outTime[d.ctx] + d.dur,
                !.outputSourcesRef = @ \cup {[id |-> d.id, ctx |-> d.ctx,
                                              start |-> s0.nextStartTimeRef,
                                              at |-> Max(s0.nextStartTimeRef,
                                                         s0.env.outTime[d.ctx]),
                                              dur |-> d.dur]}]

\* onDecoded ending the call when the decode failed.
onDecoded_fatal(st, d) ==
    LET s0 == [st EXCEPT !.ctl.decodes = @ \ {d},
                         !.obs.failed = IF d.dur = -1 THEN @ \cup {d.id} ELSE @]
    IN  IF d.dur = -1 \/ s0.masterGainRef # d.ctx
        THEN IF d.dur = -1 THEN endCall(throw(s0), -1) ELSE throw(s0)
        ELSE [s0 EXCEPT
                !.obs.events = Append(@, Event("start", "chunk", d.id, s0.nextStartTimeRef)),
                !.nextStartTimeRef = @ + d.dur,
                !.outputSourcesRef = @ \cup {[id |-> d.id, ctx |-> d.ctx,
                                              start |-> s0.nextStartTimeRef,
                                              at |-> Max(s0.nextStartTimeRef,
                                                         s0.env.outTime[d.ctx]),
                                              dur |-> d.dur]}]

\* The audio facet after "await decodeAudioData(...)".
onDecoded(st, d) ==
    LET s0 == [st EXCEPT !.ctl.decodes = @ \ {d},
                         !.obs.failed = IF d.dur = -1 THEN @ \cup {d.id} ELSE @]
    IN  IF d.dur = -1 \/ s0.masterGainRef # d.ctx
        THEN throw(s0)
        ELSE [s0 EXCEPT
                !.obs.events = Append(@, Event("start", "chunk", d.id, s0.nextStartTimeRef)),
                !.nextStartTimeRef = @ + d.dur,
                !.outputSourcesRef = @ \cup {[id |-> d.id, ctx |-> d.ctx,
                                              start |-> s0.nextStartTimeRef,
                                              at |-> Max(s0.nextStartTimeRef,
                                                         s0.env.outTime[d.ctx]),
                                              dur |-> d.dur]}]

\* ------------------------------------------------------------------ actions
\* handleCallToggle: the button is disabled while callState is 'ended'.
StartCall ==
    /\ callState = "idle"
    /\ budget.calls > 0
    /\ Becomes(startCallBegin([Task("StartCall") EXCEPT !.budget.calls = @ - 1]))

UserHangup ==
    /\ callState \in {"calling", "active"}
    /\ Becomes(endCall(Task("UserHangup"), callStartTime))

MicGranted(c) ==
    /\ env.stream[c] = "pending"
    /\ Becomes(startCallConnect(CallTask("MicGranted", c), c))

MicGrantedThrow(c) ==
    /\ env.stream[c] = "pending"
    /\ Becomes(startCallThrow(CallTask("MicGrantedThrow", c), c))

MicDenied(c) ==
    /\ env.stream[c] = "pending"
    /\ \E cause \in MicCauses : Becomes(startCallMicError(CallTask("MicDenied", c), c, cause))

ChannelOpen(c) ==
    /\ env.channel[c] = "pending"
    /\ Becomes(resumeEndCall(onopen([CallTask("ChannelOpen", c) EXCEPT !.env.channel[c] = "open"], c), c))

ConnectRejected(c) ==
    /\ env.channel[c] = "pending"
    /\ Becomes(resumeEndCall(
           handleSessionError([CallTask("ConnectRejected", c) EXCEPT !.env.channel[c] = "rejected"], c), c))

ChannelError(c) ==
    /\ env.channel[c] \in {"pending", "open"}
    /\ Becomes(onerror(CallTask("ChannelError", c), c))

ChannelClosed(c) ==
    /\ env.channel[c] \in {"open", "closing"}
    /\ Becomes(onclose([CallTask("ChannelClosed", c) EXCEPT !.env.channel[c] = "closed"], c))

ResetTimer ==
    /\ ctl.endCall = "timer"
    /\ Becomes(resetTimer(Task("ResetTimer")))

Tick ==
    /\ budget.ticks > 0
    /\ Becomes([Task("Tick") EXCEPT
           !.env.now = @ + 1,
           !.env.outTime = [c \in Calls |-> IF env.outCtx[c] = "open"
                                            THEN @[c] + 1 ELSE @[c]],
           !.budget.ticks = @ - 1])

\* A message is delivered while the channel is open, and may still be
\* delivered after close() was called on it, until the close event.
OnMessage(c) ==
    /\ env.channel[c] \in {"open", "closing"}
    /\ budget.msgs > 0
    /\ \E m \in Messages(budget.kinds) :
            Becomes(onmessage([CallTask("OnMessage", c) EXCEPT !.budget.msgs = @ - 1,
                                                     !.obs.msgs = @ + 1,
                                                     !.obs.message = <<m>>],
                           c, m, obs.msgs + 1))

\* The script processor of call c hands over the next frame of the microphone.
AudioProcess(c) ==
    /\ env.processor[c] = "attached"
    /\ budget.frames > 0
    /\ LET st == [CallTask("AudioProcess", c) EXCEPT !.budget.frames = @ - 1,
                                              !.env.frames = @ + 1]
       IN  IF budget.halfDuplex
           THEN Becomes(onaudioprocess_halfDuplex(st, env.frames + 1))
           ELSE Becomes(onaudioprocess(st, env.frames + 1))

\* The decodes of decodeAudioData that may settle next: decoding is an
\* asynchronous step of varying latency, so any pending one may.
PendingDecodes == ctl.decodes

DecodeDone ==
    \E d \in PendingDecodes : Becomes(onDecoded(Task("DecodeDone"), d))

\* The 'ended' listener of a source whose playback has run to its end.
SourceEnded ==
    \E src \in outputSourcesRef :
        /\ env.outTime[src.ctx] >= src.at + src.dur
        /\ Becomes([Task("SourceEnded") EXCEPT !.outputSourcesRef = @ \ {src}])

Next ==
    \/ StartCall
    \/ UserHangup
    \/ \E c \in Calls : MicGranted(c)
    \/ \E c \in Calls : MicGrantedThrow(c)
    \/ \E c \in Calls : MicDenied(c)
    \/ \E c \in Calls : ChannelOpen(c)
    \/ \E c \in Calls : ConnectRejected(c)
    \/ \E c \in Calls : ChannelError(c)
    \/ \E c \in Calls : ChannelClosed(c)
    \/ \E c \in Calls : OnMessage(c)
    \/ \E c \in Calls : AudioProcess(c)
    \/ DecodeDone
    \/ SourceEnded
    \/ ResetTimer
    \/ Tick

Spec == Init /\ [][Next]_vars

\* Only the reset timer is owed to the program by its scheduler: a timer that
\* is set fires.  Whether the microphone request or the channel connect ever
\* settles is up to the browser and the remote service.
FairSpec == Init /\ [][Next]_vars /\ WF_vars(ResetTimer)

\* ------------------------------------------------------------------- claims
EventsOf(kind) == SelectSeq(obs.events, LAMBDA e : e.kind = kind)
Triggers == {"UserHangup", "ChannelClosed", "ChannelError", "ConnectRejected"}

C2_NoProcessingOnceEnded ==
    [][ (callState = "ended" /\ obs'.task = "OnMessage") =>
            /\ currentInputRef' = currentInputRef
            /\ currentOutputRef' = currentOutputRef
            /\ partialInput' = partialInput
            /\ partialOutput' = partialOutput
            /\ transcriptions' = transcriptions
            /\ ctl'.decodes = ctl.decodes
            /\ outputSourcesRef' = outputSourcesRef
            /\ nextStartTimeRef' = nextStartTimeRef
            /\ \A i \in 1..Len(obs'.events) :
                   obs'.events[i].kind \notin {"sound", "ack", "start"} ]_vars

\* C3: callState changes only along idle->calling (user start), calling->active
\* (channel open), calling->idle (microphone failure), calling->ended and
\* active->ended (teardown), ended->idle (reset timer).
C3_Transitions ==
    [][ callState' # callState =>
            \/ callState = "idle" /\ callState' = "calling" /\ obs'.task = "StartCall"
            \/ callState = "calling" /\ callState' = "active" /\ obs'.task = "ChannelOpen"
            \/ callState = "calling" /\ callState' = "idle" /\ obs'.task = "MicDenied"
            \/ callState \in {"calling", "active"} /\ callState' = "ended"
               /\ isEndingRef' /\ ~isEndingRef
            \/ callState = "ended" /\ callState' = "idle" /\ obs'.task = "ResetTimer" ]_vars

\* C4: at most one session is live: two running microphone streams or two
\* open channels never coexist, and when startCall begins no earlier stream is
\* running and no earlier channel is open.
Live == { c \in Calls : env.stream[c] = "live" }
Open == { c \in Calls : env.channel[c] = "open" }

C4_OneSession ==
    /\ Cardinality(Live) <= 1
    /\ Cardinality(Open) <= 1
    /\ obs.task = "StartCall" => (Live = {} /\ Open = {})

\* C5: while callState is calling or active, a user hangup, a remote close, a
\* channel error or a connect rejection moves callState to 'ended' and starts
\* the teardown (the lock is taken by that very call of endCall).
C5_TriggersEnd ==
    [][ (callState \in {"calling", "active"} /\ obs'.task \in Triggers) =>
            /\ callState' = "ended"
            /\ ~isEndingRef /\ isEndingRef'
            /\ ctl'.endCall \in {"awaiting", "timer"} ]_vars

\* C6: every entry into 'ended' is eventually followed by 'idle' with the
\* teardown lock released.
C6_EndedLeadsToIdle ==
    (callState = "ended") ~> (callState = "idle" /\ ~isEndingRef)

\* C7: whenever a session is in 'ended', the disconnect chime has been played
\* exactly once for that teardown.
C7_OneChime == callState = "ended" => obs.chimes = 1

\* C8: every tool call named playSoundEffect or setAmbianceVolume is answered,
\* in the task that handles it, by exactly one acknowledgement with its id
\* and name.
Acks(id, name) ==
    SelectSeq(obs.events, LAMBDA e : e.kind = "ack" /\ e.id = id /\ e.name = name)

C8_OneAck ==
    \A i \in 1..Len(obs.events) :
        LET e == obs.events[i]
        IN  (e.kind = "request" /\ e.name \in {"playSoundEffect", "setAmbianceVolume"})
                => Len(Acks(e.id, e.name)) = 1

\* C9: nextStartTimeRef never decreases in a step other than the handling of
\* a message with the interruption facet.
C9_CursorMonotone ==
    [][ nextStartTimeRef' < nextStartTimeRef =>
            /\ obs'.task = "OnMessage"
            /\ \E i \in 1..Len(obs'.events) : obs'.events[i].kind = "interrupted" ]_vars

\* A decode has completed and advanced the cursor while the decode of another
\* chunk is still pending.
C9_Witness ==
    /\ obs.task = "DecodeDone"
    /\ ctl.decodes # {}
    /\ outputSourcesRef # {}
    /\ nextStartTimeRef > 0

\* C10: right after a message with the interruption facet has been handled,
\* nextStartTimeRef equals the currentTime of the output audio context.
C10_CursorIsNow ==
    (obs.task = "OnMessage" /\ EventsOf("interrupted") # << >>
         /\ outputAudioContextRef # NoCall)
        => nextStartTimeRef = env.outTime[outputAudioContextRef]

\* C11: once a message with the interruption facet has been handled, no chunk
\* of a message that arrived before it is in the live output set: none keeps
\* playing and none is started afterwards, a chunk whose decode was pending
\* at the interruption included.
C11_InterruptionCancels ==
    \A s \in outputSourcesRef : s.id >= obs.cut

\* C12: of two chunks of one session, the one whose message arrived first has
\* the earlier start time, whatever the order in which their decodes complete.
C12_NoReorder ==
    \A a, b \in outputSourcesRef :
        (a.ctx = b.ctx /\ a.id < b.id) => a.start < b.start

\* C13: any two sources of the live output set play over disjoint intervals:
\* one begins to play no earlier than the other has played its duration.
\* A source started with a time already past begins to play at once (at).
C13_NoOverlap ==
    \A a, b \in outputSourcesRef :
        (a # b /\ a.ctx = b.ctx) =>
            (a.at + a.dur <= b.at \/ b.at + b.dur <= a.at)

\* C14: whenever callState is 'idle', the two accumulators currentInputRef
\* and currentOutputRef are empty, so that no delta of one call is left for
\* the partial buffers or the committed entries of the next call.
C14_BuffersEmptyWhenIdle ==
    callState = "idle" => (currentInputRef = << >> /\ currentOutputRef = << >>)

\* C15: in the step in which the reset timer moves callState from 'ended' to
\* 'idle', the transcript sequence and the displayed partial input and output
\* become empty, the thinking indicator false, the call start time null and
\* the teardown lock released.
C15_ResetStep ==
    [][ (obs'.task = "ResetTimer" /\ callState = "ended" /\ callState' = "idle") =>
            /\ transcriptions' = << >>
            /\ partialInput' = << >>
            /\ partialOutput' = << >>
            /\ ~isAiThinking'
            /\ callStartTime' = -1
            /\ ~isEndingRef' ]_vars

\* The reset timer has fired in 'ended' on a transcript with entries.
C15_Witness ==
    /\ obs.task = "ResetTimer"
    /\ callState = "idle"
    /\ \E i \in 1..Len(obs.events) :
           /\ obs.events[i].kind = "reset"
           /\ obs.events[i].name = "ended"
           /\ obs.events[i].id >= 1
    /\ transcriptions = << >>
    /\ ~isEndingRef

\* C16: a message with the turn-complete facet appends to the transcript a
\* 'You' entry with the text of the input buffer iff that text is non-blank,
\* then an 'AI' entry with the text of the output buffer iff that text is
\* non-blank, and nothing else, and leaves both accumulators and both
\* displayed partials empty.  The buffers are those the facet finds: the
\* accumulators extended by the deltas of the same message.
Delta(facet) == IF facet = << >> THEN << >> ELSE facet[1]

Entry(speaker, text) ==
    IF Trimmed(text) THEN << [speaker |-> speaker, text |-> text] >> ELSE << >>

C16_TurnCompleteCommit ==
    [][ (obs'.task = "OnMessage" /\ obs'.message[1].turnComplete) =>
            LET m == obs'.message[1]
                fullInput == currentInputRef \o Delta(m.inputTranscription)
                fullOutput == currentOutputRef \o Delta(m.outputTranscription)
            IN  /\ transcriptions' = transcriptions \o Entry("You", fullInput)
                                                     \o Entry("AI", fullOutput)
                /\ currentInputRef' = << >>
                /\ currentOutputRef' = << >>
                /\ partialInput' = << >>
                /\ partialOutput' = << >> ]_vars

\* C17: while callState is 'calling' or 'active', a step leaves the transcript
\* sequence as a prefix of its new value, unless it is the reset timer
\* moving to 'idle'.
IsPrefix(s, t) == Len(s) <= Len(t) /\ SubSeq(t, 1, Len(s)) = s

LoopStarts ==
    SelectSeq(obs.events, LAMBDA e : e.kind = "sound" /\ e.arg = 1
                                         /\ e.name \notin OscillatorTones)

C18_OneLoop ==
    /\ env.loops <= 1
    /\ LoopStarts # << >> =>
           /\ env.loops = 1
           /\ ambientSourceRef = LoopStarts[Len(LoopStarts)].name

\* A looping effect has been started while another one was the ambient source.
C18_Witness ==
    /\ obs.task = "OnMessage"
    /\ LoopStarts # << >>
    /\ \E i \in 1..Len(obs.events) :
           obs.events[i].kind = "stop" /\ obs.events[i].name = "wind"
    /\ ambientSourceRef = "heartbeat"
    /\ env.loops = 1

\* C19: a message with the interruption facet and no tool call leaves the
\* ambient source, its gain and the looping sources as they were; and the
\* ambient slot changes only in the handling of a playSoundEffect call with
\* loop = true or in the endCall that takes the teardown lock.
LoopRequest(message) ==
    /\ message # << >>
    /\ message[1].toolCall # << >>
    /\ message[1].toolCall[1].name = "playSoundEffect"
    /\ message[1].toolCall[1].loop

C19_InterruptionKeepsAmbient ==
    [][ /\ (obs'.task = "OnMessage" /\ obs'.message[1].interrupted
              /\ obs'.message[1].toolCall = << >>) =>
                 /\ ambientSourceRef' = ambientSourceRef
                 /\ ambientGainRef' = ambientGainRef
                 /\ env'.loops = env.loops
        /\ ambientSourceRef' # ambientSourceRef =>
                 \/ obs'.task = "OnMessage" /\ LoopRequest(obs'.message)
                 \/ ~isEndingRef /\ isEndingRef' ]_vars

\* An interruption has been handled while an ambient loop plays.
C19_Witness ==
    /\ obs.task = "OnMessage"
    /\ obs.message[1].interrupted
    /\ obs.message[1].toolCall = << >>
    /\ EventsOf("interrupted") # << >>
    /\ ambientSourceRef = "wind"
    /\ env.loops = 1

\* C20: the ambient slot never holds a source other than a wind or a
\* heartbeat: a whisper is not retained, whatever loop flag it is asked with.
C20_WhisperOneShot ==
    ambientSourceRef \in {"none", "wind", "heartbeat"}

\* C21: a setAmbianceVolume request with a numeric volume v, handled while an
\* ambient gain exists, calls the gain ramp once with the level
\* min(0.8, max(0, v)), in hundredths min(80, max(0, v)), and the gain is
\* ramped to that level; no ramp is called with a level outside [0, 0.8].
VolumeRequest(message) ==
    /\ message # << >>
    /\ message[1].toolCall # << >>
    /\ message[1].toolCall[1].name = "setAmbianceVolume"
    /\ message[1].toolCall[1].hasArgs
    /\ message[1].toolCall[1].volume # NaV

C21_VolumeClamped ==
    [][ /\ (obs'.task = "OnMessage" /\ VolumeRequest(obs'.message)
              /\ ambientGainRef # -1 /\ outputAudioContextRef # NoCall) =>
                LET v == obs'.message[1].toolCall[1].volume
                    ramps == SelectSeq(obs'.events, LAMBDA e : e.kind = "ramp")
                IN  /\ Len(ramps) = 1
                    /\ ramps[1].arg = Min(80, Max(0, v))
                    /\ ambientGainRef' = Min(80, Max(0, v))
        /\ \A i \in 1..Len(obs'.events) :
               obs'.events[i].kind = "ramp" => obs'.events[i].arg \in 0..80 ]_vars

\* C22: a setAmbianceVolume request with a numeric volume, handled in a live
\* session (its channel open, teardown not begun) while no ambient source
\* exists, calls no ramp, leaves the ambient slot, its gain and the looping
\* sources as they were, and is answered by exactly one acknowledgement
\* with its id and name.
LiveSession ==
    /\ sessionPromiseRef # NoCall
    /\ env.channel[sessionPromiseRef] = "open"

MicFailures == EventsOf("micError")

C23_MicFailure ==
    [][ /\ obs'.task = "MicDenied" =>
              /\ callState' = "idle"
              /\ micError' \notin {"none", ""}
              /\ isEndingRef' = isEndingRef
              /\ ctl'.endCall = ctl.endCall
              /\ obs'.chimes = obs.chimes
              /\ \A i \in 1..Len(obs'.events) : obs'.events[i].kind # "sound"
        /\ \A c \in Calls : env'.stream[c] = "failed" =>
              /\ env'.inCtx[c] = "none"
              /\ env'.outCtx[c] = "none"
              /\ env'.channel[c] = "none" ]_vars

\* The microphone has been refused to a call that was waiting for it.
C23_Witness ==
    /\ obs.task = "MicDenied"
    /\ MicFailures # << >>
    /\ callState = "idle"
    /\ micError = MicMessage("NotAllowedError")
    /\ ~isEndingRef

\* C24: the message shown after a failure of cause x is the message of a
\* cause y exactly when x and y are of the same kind, the kinds being:
\* permission denied (NotAllowedError, PermissionDeniedError), no device
\* (NotFoundError), device busy (NotReadableError), anything else.
CauseKind(cause) ==
    CASE cause \in {"NotAllowedError", "PermissionDeniedError"} -> 1
      [] cause = "NotFoundError" -> 2
      [] cause = "NotReadableError" -> 3
      [] OTHER -> 4

C24_DistinctMessages ==
    (obs.task = "MicDenied" /\ MicFailures # << >>) =>
        \A y \in MicCauses :
            (micError = MicMessage(y)) <=> (CauseKind(MicFailures[1].name) = CauseKind(y))

\* A busy device has been reported with its own message.
C24_Witness ==
    /\ obs.task = "MicDenied"
    /\ MicFailures # << >>
    /\ MicFailures[1].name = "NotReadableError"
    /\ micError = MicMessage("NotReadableError")
    /\ micError # MicMessage("OtherError")

\* C25: the step in which endCall takes the teardown lock records as call
\* duration the time elapsed since the start time of the session being
\* ended, and 0 when that session has no start time.
C25_Duration ==
    [][ (~isEndingRef /\ isEndingRef') =>
            callDuration' = (IF callStartTime # -1
                             THEN env'.now - callStartTime ELSE 0) ]_vars

Frames(log) == SelectSeq(log, LAMBDA e : e.kind = "frame")

\* C26: the frames that reach the channel reach it in the order in which the
\* microphone captured them: of two frames sent, the one sent first was
\* captured first, whether they were sent at once or kept by a pending
\* connect promise.
C26_CaptureOrder ==
    \A i, j \in DOMAIN env.sent :
        i < j => env.sent[i].id < env.sent[j].id

C26_Witness ==
    /\ Len(env.sent) >= 2
    /\ obs.task = "AudioProcess"

C26_WitnessKept ==
    /\ Len(env.sent) >= 2
    /\ obs.task = "ChannelOpen"
    /\ Len(Frames(obs.events)) >= 2

Dropped(log) == SelectSeq(log, LAMBDA e : e.kind = "frame" /\ e.name = "dropped")

\* C27: in the half-duplex variant a frame captured while the set of live
\* output sources is not empty is dropped, neither sent nor kept for later;
\* a frame goes out only if the set was empty when the capture callback ran.
C27_HalfDuplex ==
    [][ (obs'.task = "AudioProcess" /\ budget.halfDuplex) =>
            /\ outputSourcesRef # {} =>
                    /\ env'.sent = env.sent
                    /\ ctl'.thens = ctl.thens
                    /\ Len(Dropped(obs'.events)) = 1
            /\ env'.sent # env.sent => outputSourcesRef = {} ]_vars

C27_Witness ==
    /\ obs.task = "AudioProcess"
    /\ budget.halfDuplex
    /\ outputSourcesRef # {}
    /\ Len(Dropped(obs.events)) = 1
    /\ Len(env.sent) = 1

ToolRequest(message) == message # << >> /\ message[1].toolCall # << >>

Unrecognised(message) ==
    /\ ToolRequest(message)
    /\ message[1].toolCall[1].name \notin {"playSoundEffect", "setAmbianceVolume"}

\* C28: a tool call whose name is neither playSoundEffect nor
\* setAmbianceVolume has no effect: the task that handles it sends no
\* acknowledgement and keeps none for later, and leaves the ambient slot as
\* it was; when the call is the only facet of its message no sound is played
\* and the live output set, the cursor, the buffers and the transcripts are
\* unchanged too.
C28_UnknownToolIgnored ==
    [][ (obs'.task = "OnMessage" /\ Unrecognised(obs'.message)) =>
            /\ EventsOf("ack")' = << >>
            /\ ctl'.thens = ctl.thens
            /\ ~ctl'.thrown
            /\ ambientSourceRef' = ambientSourceRef
            /\ ambientGainRef' = ambientGainRef
            /\ env'.loops = env.loops
            /\ Facets(obs'.message[1]) = 1 =>
                    /\ EventsOf("sound")' = << >>
                    /\ outputSourcesRef' = outputSourcesRef
                    /\ nextStartTimeRef' = nextStartTimeRef
                    /\ transcriptions' = transcriptions
                    /\ currentInputRef' = currentInputRef
                    /\ currentOutputRef' = currentOutputRef
                    /\ ctl'.decodes = ctl.decodes ]_vars

C28_Witness ==
    /\ obs.task = "OnMessage"
    /\ Unrecognised(obs.message)
    /\ Facets(obs.message[1]) = 1
    /\ LiveSession
    /\ ambientSourceRef # "none"

Malformed(fc) ==
    \/ fc.name = "playSoundEffect" /\ (~fc.hasArgs \/ fc.soundName = "none")
    \/ fc.name = "setAmbianceVolume" /\ (~fc.hasArgs \/ fc.volume = NaV)

\* C29: in a live session a malformed tool call (playSoundEffect without
\* soundName, setAmbianceVolume with a volume that is not a number, or either
\* without args) does not fail the message handler: it plays no sound and
\* leaves the ambient slot alone, and the interruption, turn-complete and
\* audio facets of the same message are processed.
C29_MalformedIgnored ==
    [][ ( /\ obs'.task = "OnMessage"
          /\ ToolRequest(obs'.message)
          /\ Malformed(obs'.message[1].toolCall[1])
          /\ LiveSession
          /\ outputAudioContextRef # NoCall ) =>
            LET m == obs'.message[1]
            IN  /\ ~ctl'.thrown
                /\ ambientSourceRef' = ambientSourceRef
                /\ ambientGainRef' = ambientGainRef
                /\ \A i \in DOMAIN EventsOf("sound")' :
                       EventsOf("sound")'[i].name = "pop"
                /\ m.interrupted =>
                       /\ obs'.cut = obs'.msgs
                       /\ m.audio = << >> => nextStartTimeRef' = 0
                /\ m.turnComplete =>
                       /\ currentInputRef' = << >>
                       /\ currentOutputRef' = << >>
                /\ m.audio # << >> =>
                       \E d \in ctl'.decodes : d.id = obs'.msgs ]_vars

\* C30: a decode that fails adds nothing to the live output set and tears
\* nothing down (call state, teardown lock, session reference, channels and
\* cursor stay as they were), and a chunk that arrived after a failed one
\* is started at the cursor and advances it by its duration.
C30_DecodeFailureLocal ==
    [][ obs'.task = "DecodeDone" =>
            \A d \in ctl.decodes \ ctl'.decodes :
                /\ d.dur = -1 =>
                       /\ outputSourcesRef' = outputSourcesRef
                       /\ nextStartTimeRef' = nextStartTimeRef
                       /\ callState' = callState
                       /\ isEndingRef' = isEndingRef
                       /\ sessionPromiseRef' = sessionPromiseRef
                       /\ env'.channel = env.channel
                       /\ ctl'.decodes = ctl.decodes \ {d}
                /\ ( /\ d.dur > 0
                     /\ masterGainRef = d.ctx
                     /\ \E f \in obs.failed : f < d.id ) =>
                       /\ \E src \in outputSourcesRef' \ outputSourcesRef :
                              /\ src.id = d.id
                              /\ src.start = nextStartTimeRef
                              /\ src.dur = d.dur
                       /\ nextStartTimeRef' = nextStartTimeRef + d.dur ]_vars

C30_Witness ==
    /\ obs.task = "DecodeDone"
    /\ EventsOf("start") # << >>
    /\ callState = "active"
    /\ \E src \in outputSourcesRef :
           /\ src.id = obs.msgs
           /\ \E f \in obs.failed : f < src.id

Requested == { c \in Calls : env.stream[c] # "none" }
Connected == { c \in Calls : env.channel[c] # "none" }

\* C31: nothing is retried: a microphone request is issued only by a
\* start-call action taken from idle, one per action; a connect is issued
\* only by the continuation of that action when its microphone request is
\* granted, at most one per action; a request that has settled is never
\* pending again and a channel that has left the pending state never
\* returns to it.
C31_NoRetry ==
    [][ /\ Cardinality(Requested') = env'.nCalls
        /\ Connected' \subseteq Requested'
        /\ \A c \in Calls :
              /\ (env'.stream[c] = "pending" /\ env.stream[c] # "pending") =>
                     /\ obs'.task = "StartCall"
                     /\ callState = "idle"
                     /\ env.stream[c] = "none"
                     /\ env'.nCalls = env.nCalls + 1
              /\ (env'.channel[c] = "pending" /\ env.channel[c] # "pending") =>
                     /\ obs'.task = "MicGranted"
                     /\ obs'.call = c
                     /\ env.channel[c] = "none"
                     /\ env.stream[c] = "pending" ]_vars

C31_Witness ==
    /\ obs.task = "StartCall"
    /\ env.nCalls = 2
    /\ env.channel[1] \in {"rejected", "closed", "closing"}
    /\ env.channel[2] = "none"

\* C32: whenever the lifecycle state is idle no session resource is live:
\* no microphone stream has running tracks, no channel is connecting or
\* open, no capture processor is attached.
C32_IdleHoldsNothing ==
    callState = "idle" =>
        \A c \in Calls :
            /\ env.stream[c] # "live"
            /\ env.channel[c] \notin {"pending", "open"}
            /\ env.processor[c] # "attached"

\* C33: a close, an error or a connect rejection of an earlier session,
\* delivered when a later call is calling or active and no teardown is under
\* way, leaves the later call as it is: its lifecycle state, the teardown
\* lock, its stream, its contexts and its channel are unchanged.
C33_StaleEventHarmless ==
    [][ ( /\ obs'.task \in {"ChannelClosed", "ChannelError", "ConnectRejected"}
          /\ obs'.call < env.nCalls
          /\ callState \in {"calling", "active"}
          /\ ~isEndingRef ) =>
            /\ callState' = callState
            /\ isEndingRef' = isEndingRef
            /\ env'.stream[env.nCalls] = env.stream[env.nCalls]
            /\ env'.outCtx[env.nCalls] = env.outCtx[env.nCalls]
            /\ env'.channel[env.nCalls] = env.channel[env.nCalls] ]_vars

\* C34: the first audio chunk a session receives sets the cursor to the
\* current time of that session's output clock, whatever a previous session
\* left in the cursor.
C34_CursorFreshPerSession ==
    [][ ( /\ obs'.task = "OnMessage"
          /\ obs'.message[1].audio # << >>
          /\ obs'.call \notin obs.heard
          /\ obs'.call = outputAudioContextRef
          /\ ~ctl'.thrown ) =>
            nextStartTimeRef' = env.outTime[outputAudioContextRef] ]_vars

\* C35: in a live session a message that carries an agent output transcript
\* delta or an agent audio chunk, and no turn-complete facet, leaves the
\* thinking indicator false.
C35_ThinkingCleared ==
    [][ ( /\ obs'.task = "OnMessage"
          /\ LiveSession
          /\ obs'.call = sessionPromiseRef
          /\ ~ctl'.thrown
          /\ ~obs'.message[1].turnComplete
          /\ \/ obs'.message[1].outputTranscription # << >>
             \/ obs'.message[1].audio # << >> ) =>
            ~isAiThinking' ]_vars

\* C36: whenever the lifecycle state is idle the live output-source set is
\* empty.
C36_IdleNoSources == callState = "idle" => outputSourcesRef = {}

\* C37: whenever the lifecycle state is idle the ambient slot is empty: no
\* ambient source and no ambient gain are retained.
C37_IdleNoAmbient ==
    callState = "idle" => (ambientSourceRef = "none" /\ ambientGainRef = -1)
====
